---- MODULE Spec2Model ----
(***************************************************************************)
(* The distributed transaction coordinator of consumer/coordinator.py:     *)
(* one coordinate(group_id, action) call against a cluster of three        *)
(* replicas, with the replica clients of consumer/client.py and the        *)
(* tenacity retry wrappers around the compensation loop and coordinate.    *)
(***************************************************************************)
EXTENDS Integers, Sequences, FiniteSets, TLC

VARIABLES
    held,               \* held[i]: replica i currently holds the group
    held0,              \* held when coordinate was invoked (history)
    action,             \* the action argument of coordinate
    pc,                 \* position of the coordinate call
    attempt_number,     \* tenacity attempt number of the @retry around coordinate
    responses,          \* post_responses / delete_responses of the current attempt
    success_clients,    \* process_to_rollback: clients whose forward call succeeded
    rb_attempt_number,  \* attempt number of retry_strategy inside process_to_rollback
    rollback_responses, \* responses of the last compensation fan-out
    comp_calls,         \* inverse replica calls issued by the current create/delete
    result,             \* value returned by the last create/delete
    results,            \* results of the attempts made so far (history)
    forward_kinds,      \* per attempt: how its forward fan-out went (history)
    ret,                \* what coordinate gave its caller: a state or a raised error
    num_hosts,          \* number of keys under [CLUSTER] in cluster.ini
    comp_log,           \* the compensation fan-outs of the current create/delete (history)
    forward_calls,      \* forward replica calls issued since coordinate was invoked
    inverse_calls,      \* inverse replica calls issued since coordinate was invoked
    sink_calls,         \* invocations of an operator-facing reporting sink
    client_call,        \* a single APIClient call in flight and the replica's answer
    client_result,      \* what the last single APIClient call gave its caller
    tx,                 \* concurrent coordinate calls on distinct groups, one record each
    statistics          \* retry_strategy.statistics["attempt_number"], shared by all calls

coordVars == <<held, held0, action, pc, attempt_number, responses, success_clients,
               rb_attempt_number, rollback_responses, comp_calls, result, results,
               forward_kinds, ret, num_hosts, comp_log, forward_calls, inverse_calls,
               sink_calls>>

clientVars == <<client_call, client_result>>

twoVars == <<tx, statistics>>

vars == <<coordVars, clientVars, twoVars>>

-----------------------------------------------------------------------------
(* Constants of coordinator.py *)

HTTP_4XX_STATUS_CODES ==
    {401, 402, 403, 405, 406, 407, 408, 409, 410, 411, 412, 413, 414, 415, 416,
     417, 418, 419, 420, 421, 422, 423, 424, 425, 426, 427, 428, 429, 431, 451}

HTTP_5XX_STATUS_CODES == {500, 501, 502, 503, 504, 505, 506, 507, 508, 509, 510, 511}

HTTP_OK == 200

HTTP_CREATED == 201

HTTP_BAD_REQUEST == 400

HTTP_NOT_FOUND == 404

\* stop_after_attempt(3) of the module-level retry_strategy
RollbackMaxAttempts == 3

\* stop_after_attempt(3) of the @retry decorating coordinate
CoordinateMaxAttempts == 3

\* client1, client2, client3
NumClients == 3

\* the largest cluster.ini considered
MaxHosts == 4

Clients == 1..NumClients

SUCCEEDED == "succeeded"

ROLLED_BACK == "rolled_back"

TO_BE_RETRIED == "to_be_retried"

FAILED == "failed"

TransactionState == {SUCCEEDED, ROLLED_BACK, TO_BE_RETRIED, FAILED}

\* a coroutine that falls off its end returns None
None == "None"

\* the action strings a caller may pass; "update" stands for any invalid one
Actions == {"create", "delete", "update"}

\* mutant: the validation lets every action through
valid_actions_any == Actions

valid_actions == {"create", "delete"}

-----------------------------------------------------------------------------
(* The replicas, as the client tests and the lifecycle test drive them: a   *)
(* replica answers 201/400 to a post and 200/404 to a delete according to   *)
(* whether it holds the group, or fails without changing its state.        *)

\* the request produced no HTTP response (timeout, connection failure)
NoResponse == 0

\* failure answers to a post: a 4xx outside HTTP_4XX_STATUS_CODES, one
\* inside it, a 5xx, and no response at all
PostFailures == {HTTP_NOT_FOUND, 409, 500, NoResponse}

\* failure answers to a delete: 400, a 4xx outside HTTP_4XX_STATUS_CODES,
\* a 5xx, and no response at all
DeleteFailures == {HTTP_BAD_REQUEST, 430, 500, NoResponse}

ReplicaPostReplies(h) == (IF h THEN {HTTP_BAD_REQUEST} ELSE {HTTP_CREATED}) \cup PostFailures

ReplicaDeleteReplies(h) == (IF h THEN {HTTP_OK} ELSE {HTTP_NOT_FOUND}) \cup DeleteFailures

\* GET /v1/group/{id}/: 200 when found, 404 when absent, or a failure
ReplicaGetReplies(h) == (IF h THEN {HTTP_OK} ELSE {HTTP_NOT_FOUND}) \cup {500, NoResponse}

ReplicaAfterPost(h, wire) == h \/ wire = HTTP_CREATED

ReplicaAfterDelete(h, wire) == h /\ wire # HTTP_OK

-----------------------------------------------------------------------------
(* consumer/client.py *)

\* response.raise_for_status(): a non-2xx status raises HTTPStatusError
raise_for_status(status) == status \notin 200..299

\* the body shared by APIClient.post and APIClient.delete: a 2xx response is
\* returned, an HTTPStatusError is caught and returned, and any other
\* exception (no HTTP response) leaves the call as a raised exception
APIClientCall(wire) ==
    IF wire = NoResponse
    THEN [raised |-> TRUE, kind |-> "TransportError", status_code |-> NoResponse]
    ELSE IF raise_for_status(wire)
         THEN [raised |-> FALSE, kind |-> "HTTPStatusError", status_code |-> wire]
         ELSE [raised |-> FALSE, kind |-> "Response", status_code |-> wire]

APIClient_get(wire) == APIClientCall(wire)

APIClient_post(wire) == APIClientCall(wire)

APIClient_delete(wire) == APIClientCall(wire)

\* asyncio.gather(..., return_exceptions=True): a raised exception becomes
\* the value at the call's position
gather(calls) ==
    [i \in DOMAIN calls |-> [kind |-> calls[i].kind, status_code |-> calls[i].status_code]]

-----------------------------------------------------------------------------
(* tenacity, as coordinator.py configures it *)

\* mutant: one attempt too many before stopping
stop_after_attempt_late(n, made) == made > n

\* stop_after_attempt(n): stop once the attempt just made is the n-th
stop_after_attempt(n, made) == made >= n

\* mutant: the compensation loop's retry predicate answers False
retry_strategy_retry_never == FALSE

\* retry=(lambda x: True) of retry_strategy
retry_strategy_retry == TRUE

\* mutant: FAILED left out of the outer retry predicate
retry_if_result_only_to_be_retried(r) == r = TO_BE_RETRIED

\* mutant: only FAILED is retried, TO_BE_RETRIED is returned
retry_if_result_only_failed(r) == r = FAILED

\* retry_if_result(lambda result: result in [TO_BE_RETRIED, FAILED])
retry_if_result(r) == r \in {TO_BE_RETRIED, FAILED}

-----------------------------------------------------------------------------
(* consumer/coordinator.py: the classification helpers *)

\* mutant: any() where the code has all()
_verify_status_code_exceptions_any(rs, status_codes) ==
    \E i \in DOMAIN rs :
        rs[i].kind = "HTTPStatusError" /\ rs[i].status_code \in status_codes

_verify_status_code_exceptions(rs, status_codes) ==
    \A i \in DOMAIN rs :
        rs[i].kind = "HTTPStatusError" /\ rs[i].status_code \in status_codes

\* mutant: has_error or has_success
_check_responses_include_either(rs, verified_status_code) ==
    \/ \E i \in DOMAIN rs : rs[i].kind = "HTTPStatusError"
    \/ \E i \in DOMAIN rs : rs[i].kind = "Response" /\ rs[i].status_code = verified_status_code

_check_responses_include_both_exceptions_and_successful_cases(rs, verified_status_code) ==
    LET has_error == \E i \in DOMAIN rs : rs[i].kind = "HTTPStatusError"
        has_success == \E i \in DOMAIN rs :
                           rs[i].kind = "Response" /\ rs[i].status_code = verified_status_code
    IN  has_error /\ has_success

\* mutant: any() where the code has all()
_are_all_expected_responses_any(rs, status_code) ==
    \E i \in DOMAIN rs : rs[i].kind = "Response" /\ rs[i].status_code = status_code

_are_all_expected_responses(rs, status_code) ==
    \A i \in DOMAIN rs : rs[i].kind = "Response" /\ rs[i].status_code = status_code

\* the branch create takes on post_responses; "process_to_rollback" stands
\* for the call whose result create returns
create_branch(post_responses) ==
    IF _verify_status_code_exceptions(post_responses, {HTTP_BAD_REQUEST})
    THEN SUCCEEDED
    ELSE IF _verify_status_code_exceptions(post_responses,
                HTTP_4XX_STATUS_CODES \cup HTTP_5XX_STATUS_CODES)
    THEN TO_BE_RETRIED
    ELSE IF _check_responses_include_both_exceptions_and_successful_cases(
                post_responses, HTTP_CREATED)
    THEN "process_to_rollback"
    ELSE IF _are_all_expected_responses(post_responses, HTTP_CREATED)
    THEN SUCCEEDED
    ELSE FAILED

delete_branch(delete_responses) ==
    IF _verify_status_code_exceptions(delete_responses, {HTTP_NOT_FOUND})
    THEN SUCCEEDED
    ELSE IF _verify_status_code_exceptions(delete_responses,
                {HTTP_BAD_REQUEST} \cup HTTP_4XX_STATUS_CODES \cup HTTP_5XX_STATUS_CODES)
    THEN TO_BE_RETRIED
    ELSE IF _check_responses_include_both_exceptions_and_successful_cases(
                delete_responses, HTTP_OK)
    THEN "process_to_rollback"
    ELSE IF _are_all_expected_responses(delete_responses, HTTP_OK)
    THEN SUCCEEDED
    ELSE FAILED

\* mutant: every response that is no HTTPStatusError counts as a success
select_success_clients_no_status_error(rs, expected_status_code) ==
    SelectSeq([i \in Clients |-> i], LAMBDA c : rs[c].kind # "HTTPStatusError")

\* process_to_rollback: the clients zipped with a response that is no
\* exception and carries the expected status code, in client order
select_success_clients(rs, expected_status_code) ==
    SelectSeq([i \in Clients |-> i],
              LAMBDA c : rs[c].kind = "Response" /\ rs[c].status_code = expected_status_code)

\* mutant: the compensation loop stops one attempt late
rollback_after_attempt_late(made) ==
    IF made > RollbackMaxAttempts THEN FAILED ELSE "retry"

\* the outcome of one pass through "with attempt:" in process_to_rollback
\* when the block did not return: tenacity retries, gives up with a
\* RetryError (caught: FAILED), or ends the loop (the function returns None)
rollback_after_attempt(made) ==
    IF ~retry_strategy_retry THEN None
    ELSE IF stop_after_attempt(RollbackMaxAttempts, made) THEN FAILED
    ELSE "retry"

\* mutant: one 200 is enough
rollback_post_accepts_any(rs) == _are_all_expected_responses_any(rs, HTTP_OK)

\* the POST branch accepts a compensation fan-out
rollback_post_accepts(rs) == _are_all_expected_responses(rs, HTTP_OK)

\* the DELETE branch accepts a compensation fan-out
rollback_delete_accepts(rs) ==
    \/ _are_all_expected_responses(rs, HTTP_CREATED)
    \/ _verify_status_code_exceptions(rs, {HTTP_BAD_REQUEST})

\* original_request_method as create and delete pass it
original_request_method == IF action = "create" THEN "POST" ELSE "DELETE"

\* the ReplicaOutcome of the specification's data model for a response to
\* the forward operation of act
Outcome(act, r) ==
    LET expected == IF act = "create" THEN HTTP_CREATED ELSE HTTP_OK
        noop == IF act = "create" THEN HTTP_BAD_REQUEST ELSE HTTP_NOT_FOUND
    IN  IF r.kind = "TransportError" THEN "TransportError"
        ELSE IF r.kind = "Response" /\ r.status_code = expected THEN "Success"
        ELSE IF r.kind = "HTTPStatusError" /\ r.status_code = noop
             THEN "AlreadyInDesiredState"
        ELSE IF r.status_code \in 400..499 THEN "ClientError"
        ELSE IF r.status_code \in 500..599 THEN "ServerError"
        ELSE "Other"

ErrorOutcomes == {"ClientError", "ServerError", "TransportError"}

OutcomeSet(act, rs) == {Outcome(act, rs[i]) : i \in DOMAIN rs}

ForwardKind(act, rs) ==
    IF OutcomeSet(act, rs) \subseteq ErrorOutcomes THEN "all_error"
    ELSE IF OutcomeSet(act, rs) = {"Success"} THEN "all_success"
    ELSE "other"

RangeOf(s) == {s[k] : k \in DOMAIN s}

-----------------------------------------------------------------------------
(* State machine *)

\* no single client call has been made
NoCall == [client |-> 0, method |-> "none", wire |-> NoResponse]

NoResult == [raised |-> FALSE, kind |-> "none", status_code |-> NoResponse]

IdleClient == client_call = NoCall /\ client_result = NoResult

IdleTwo == tx = <<>> /\ statistics = 0

\* nothing has been done on the coordinator yet
Fresh ==
    /\ attempt_number = 0
    /\ comp_log = <<>>
    /\ forward_calls = 0
    /\ inverse_calls = 0
    /\ sink_calls = <<>>
    /\ responses = <<>>
    /\ success_clients = <<>>
    /\ rb_attempt_number = 0
    /\ rollback_responses = <<>>
    /\ comp_calls = 0
    /\ result = None
    /\ results = <<>>
    /\ forward_kinds = <<>>
    /\ ret = None

Init ==
    /\ held \in [Clients -> BOOLEAN]
    /\ held0 = held
    /\ action \in Actions
    /\ num_hosts \in 1..MaxHosts
    /\ pc = "construct"
    /\ Fresh
    /\ IdleClient
    /\ IdleTwo

\* TransactionCoordinator(): the generator of get_clients is unpacked into
\* exactly client1, client2, client3, which raises ValueError for any other
\* number of hosts; then coordinate is called (first attempt of its wrapper)
Construct ==
    /\ UNCHANGED <<clientVars, twoVars>>
    /\ pc = "construct"
    /\ IF num_hosts = NumClients
       THEN /\ pc' = "call"
            /\ attempt_number' = 1
       ELSE /\ pc' = "unconstructed"
            /\ UNCHANGED attempt_number
    /\ UNCHANGED <<held, held0, action, responses, success_clients, rb_attempt_number,
                   rollback_responses, comp_calls, result, results, forward_kinds, ret,
                   num_hosts, comp_log, forward_calls, inverse_calls, sink_calls>>

\* create/delete return r to the retry wrapper of coordinate
Finish(r) ==
    /\ result' = r
    /\ results' = Append(results, r)
    /\ pc' = "outcome"

\* what follows the forward fan-out in create and delete
AfterForward(branch, expected_status_code) ==
    /\ rb_attempt_number' = 0
    /\ rollback_responses' = <<>>
    /\ comp_calls' = 0
    /\ comp_log' = <<>>
    /\ forward_calls' = forward_calls + Len(responses')
    /\ forward_kinds' = Append(forward_kinds, ForwardKind(action, responses'))
    /\ IF branch = "process_to_rollback"
       THEN /\ success_clients' = select_success_clients(responses', expected_status_code)
            /\ IF original_request_method \in {"POST", "DELETE"}
               THEN /\ pc' = "rollback"
                    /\ UNCHANGED <<result, results, ret>>
               ELSE \* raise ValueError("Unregistered request method ...")
                    /\ pc' = "raised"
                    /\ ret' = "ValueError"
                    /\ UNCHANGED <<result, results>>
       ELSE /\ success_clients' = <<>>
            /\ Finish(branch)
            /\ UNCHANGED ret

\* coordinate with an action outside valid_actions: ValueError, which the
\* retry wrapper (retry_if_result) does not retry
CoordinateInvalid ==
    /\ UNCHANGED <<clientVars, twoVars>>
    /\ pc = "call"
    /\ action \notin valid_actions
    /\ pc' = "raised"
    /\ ret' = "ValueError"
    /\ UNCHANGED <<held, held0, action, attempt_number, responses, success_clients,
                   rb_attempt_number, rollback_responses, comp_calls, result, results,
                   forward_kinds, num_hosts, comp_log, forward_calls, inverse_calls,
                   sink_calls>>

\* coordinate -> create: the post fan-out and its classification
Create ==
    /\ UNCHANGED <<clientVars, twoVars>>
    /\ pc = "call"
    /\ action \in valid_actions
    /\ action = "create"
    /\ \E wire \in [Clients -> {HTTP_CREATED, HTTP_BAD_REQUEST} \cup PostFailures] :
        /\ \A c \in Clients : wire[c] \in ReplicaPostReplies(held[c])
        /\ held' = [c \in Clients |-> ReplicaAfterPost(held[c], wire[c])]
        /\ responses' = gather([c \in Clients |-> APIClient_post(wire[c])])
    /\ AfterForward(create_branch(responses'), HTTP_CREATED)
    /\ UNCHANGED <<held0, action, attempt_number, num_hosts, inverse_calls, sink_calls>>

\* coordinate -> delete: the delete fan-out and its classification
Delete ==
    /\ UNCHANGED <<clientVars, twoVars>>
    /\ pc = "call"
    /\ action \in valid_actions
    /\ action # "create"
    /\ \E wire \in [Clients -> {HTTP_OK, HTTP_NOT_FOUND} \cup DeleteFailures] :
        /\ \A c \in Clients : wire[c] \in ReplicaDeleteReplies(held[c])
        /\ held' = [c \in Clients |-> ReplicaAfterDelete(held[c], wire[c])]
        /\ responses' = gather([c \in Clients |-> APIClient_delete(wire[c])])
    /\ AfterForward(delete_branch(responses'), HTTP_OK)
    /\ UNCHANGED <<held0, action, attempt_number, num_hosts, inverse_calls, sink_calls>>

\* the end of one compensation attempt
AfterRollbackAttempt(method, accepted) ==
    /\ rb_attempt_number' = rb_attempt_number + 1
    /\ comp_calls' = comp_calls + Len(success_clients)
    /\ inverse_calls' = inverse_calls + Len(success_clients)
    /\ comp_log' = Append(comp_log, [method |-> method,
                                     targets |-> DOMAIN rollback_responses',
                                     accepted |-> accepted])
    /\ IF accepted
       THEN Finish(ROLLED_BACK)
       ELSE LET next == rollback_after_attempt(rb_attempt_number') IN
            IF next = "retry"
            THEN UNCHANGED <<pc, result, results>>
            ELSE Finish(next)

\* process_to_rollback, original_request_method = "POST": one attempt of
\* the delete fan-out to success_clients
RollbackPost ==
    /\ UNCHANGED <<clientVars, twoVars>>
    /\ pc = "rollback"
    /\ original_request_method = "POST"
    /\ LET targets == RangeOf(success_clients) IN
       \E wire \in [targets -> {HTTP_OK, HTTP_NOT_FOUND} \cup DeleteFailures] :
        /\ \A c \in targets : wire[c] \in ReplicaDeleteReplies(held[c])
        /\ held' = [c \in Clients |->
                       IF c \in targets THEN ReplicaAfterDelete(held[c], wire[c]) ELSE held[c]]
        /\ rollback_responses' = gather([c \in targets |-> APIClient_delete(wire[c])])
    /\ AfterRollbackAttempt("delete", rollback_post_accepts(rollback_responses'))
    /\ UNCHANGED <<held0, action, attempt_number, responses, success_clients,
                   forward_kinds, ret, num_hosts, forward_calls, sink_calls>>

\* process_to_rollback, original_request_method = "DELETE": one attempt of
\* the post fan-out to success_clients
RollbackDelete ==
    /\ UNCHANGED <<clientVars, twoVars>>
    /\ pc = "rollback"
    /\ original_request_method = "DELETE"
    /\ LET targets == RangeOf(success_clients) IN
       \E wire \in [targets -> {HTTP_CREATED, HTTP_BAD_REQUEST} \cup PostFailures] :
        /\ \A c \in targets : wire[c] \in ReplicaPostReplies(held[c])
        /\ held' = [c \in Clients |->
                       IF c \in targets THEN ReplicaAfterPost(held[c], wire[c]) ELSE held[c]]
        /\ rollback_responses' = gather([c \in targets |-> APIClient_post(wire[c])])
    /\ AfterRollbackAttempt("post", rollback_delete_accepts(rollback_responses'))
    /\ UNCHANGED <<held0, action, attempt_number, responses, success_clients,
                   forward_kinds, ret, num_hosts, forward_calls, sink_calls>>

\* the @retry wrapper of coordinate, after create/delete returned result:
\* return it, call again, or raise RetryError once the attempts are used up
CoordinateRetry ==
    /\ UNCHANGED <<clientVars, twoVars>>
    /\ pc = "outcome"
    /\ IF ~retry_if_result(result)
       THEN /\ pc' = "returned"
            /\ ret' = result
            /\ UNCHANGED <<attempt_number, responses, success_clients, rb_attempt_number,
                           rollback_responses, comp_calls, comp_log>>
       ELSE IF stop_after_attempt(CoordinateMaxAttempts, attempt_number)
       THEN /\ pc' = "raised"
            /\ ret' = "RetryError"
            /\ UNCHANGED <<attempt_number, responses, success_clients, rb_attempt_number,
                           rollback_responses, comp_calls, comp_log>>
       ELSE /\ pc' = "call"
            /\ attempt_number' = attempt_number + 1
            /\ responses' = <<>>
            /\ success_clients' = <<>>
            /\ rb_attempt_number' = 0
            /\ rollback_responses' = <<>>
            /\ comp_calls' = 0
            /\ comp_log' = <<>>
            /\ UNCHANGED ret
    /\ UNCHANGED <<held, held0, action, result, results, forward_kinds, num_hosts,
                   forward_calls, inverse_calls, sink_calls>>

Next ==
    \/ Construct
    \/ CoordinateInvalid
    \/ Create
    \/ Delete
    \/ RollbackPost
    \/ RollbackDelete
    \/ CoordinateRetry

Spec == Init /\ [][Next]_vars

(***************************************************************************)
(* A single APIClient call against one replica (client.py)                 *)
(***************************************************************************)

Methods == {"get", "post", "delete"}

\* what the replica may put on the wire for the method, given what it holds
ReplicaReplies(method, h) ==
    CASE method = "get"    -> ReplicaGetReplies(h)
      [] method = "post"   -> ReplicaPostReplies(h)
      [] method = "delete" -> ReplicaDeleteReplies(h)

ReplicaAfter(method, h, wire) ==
    CASE method = "get"    -> h
      [] method = "post"   -> ReplicaAfterPost(h, wire)
      [] method = "delete" -> ReplicaAfterDelete(h, wire)

APIClient(method, wire) ==
    CASE method = "get"    -> APIClient_get(wire)
      [] method = "post"   -> APIClient_post(wire)
      [] method = "delete" -> APIClient_delete(wire)

InitClient ==
    /\ held \in [Clients -> BOOLEAN]
    /\ held0 = held
    /\ action = "create"
    /\ num_hosts = NumClients
    /\ pc = "client"
    /\ Fresh
    /\ IdleClient
    /\ IdleTwo

\* await client.request(...): the request reaches the replica (or does not)
ClientRequest ==
    /\ pc = "client"
    /\ client_call = NoCall
    /\ \E c \in Clients, method \in Methods :
         \E wire \in ReplicaReplies(method, held[c]) :
            /\ client_call' = [client |-> c, method |-> method, wire |-> wire]
            /\ held' = [held EXCEPT ![c] = ReplicaAfter(method, held[c], wire)]
    /\ client_result' = NoResult
    /\ UNCHANGED <<held0, action, pc, attempt_number, responses, success_clients,
                   rb_attempt_number, rollback_responses, comp_calls, result,
                   results, forward_kinds, ret, num_hosts, comp_log,
                   forward_calls, inverse_calls, sink_calls, twoVars>>

\* raise_for_status, the except clause and the return (or the propagation)
ClientComplete ==
    /\ pc = "client"
    /\ client_call # NoCall
    /\ client_result' = APIClient(client_call.method, client_call.wire)
    /\ client_call' = NoCall
    /\ UNCHANGED <<coordVars, twoVars>>

NextClient ==
    \/ ClientRequest
    \/ ClientComplete

SpecClient == InitClient /\ [][NextClient]_vars

(***************************************************************************)
(* Two coordinate calls in one event loop, on distinct group ids.  Each    *)
(* call has its own coordinator state and its own replicas' records of its *)
(* group; the calls share the module-level retry_strategy object.          *)
(***************************************************************************)

Txns == {1, 2}

\* the failure answers the replicas give in the concurrent runs
TwoFailures == {500}

\* in how many fan-outs of one call some replica gives a failure answer
MaxFaultyRounds == 3

Faults(wire) == IF \E i \in DOMAIN wire : wire[i] \in TwoFailures THEN 1 ELSE 0

TwoPostReplies(h) == ReplicaPostReplies(h) \ (PostFailures \ TwoFailures)

TwoDeleteReplies(h) == ReplicaDeleteReplies(h) \ (DeleteFailures \ TwoFailures)

TwoWire == {HTTP_OK, HTTP_CREATED, HTTP_BAD_REQUEST, HTTP_NOT_FOUND} \cup TwoFailures

\* mutant: the stop condition reads the attempt number of the shared object
retry_state_attempt_number_shared(t) == statistics

\* RetryCallState.attempt_number of the loop `for attempt in retry_strategy`
\* of call t: created by that loop's __iter__, local to it
retry_state_attempt_number(t) == tx[t].rb_attempt_number

InitTwo ==
    /\ held = [c \in Clients |-> FALSE]
    /\ held0 = held
    /\ action = "create"
    /\ num_hosts = NumClients
    /\ pc = "concurrent"
    /\ Fresh
    /\ IdleClient
    /\ statistics = 0
    /\ tx = [t \in Txns |->
               [action            |-> IF t = 1 THEN "create" ELSE "delete",
                held              |-> [c \in Clients |-> t # 1],
                faults            |-> 0,
                pc                |-> "call",
                attempt_number    |-> 1,
                success_clients   |-> <<>>,
                rb_attempt_number |-> 0,
                accepted          |-> <<>>,
                result            |-> None,
                ret               |-> None]]

\* call t's function returns r to the wrapper of coordinate
TwoFinish(x, r) == [x EXCEPT !.result = r, !.pc = "outcome"]

\* create/delete of call t after its gather: classification; when it hands
\* over to process_to_rollback, that runs up to the first compensation
\* gather: retry_strategy.__iter__ calls begin(), which resets the shared
\* statistics, and makes a new retry state with attempt_number 1
TwoForward(t) ==
    LET x == tx[t]
        create == x.action = "create"
    IN
    /\ pc = "concurrent"
    /\ x.pc = "call"
    /\ \E wire \in [Clients -> TwoWire] :
         /\ x.faults + Faults(wire) <= MaxFaultyRounds
         /\ \A c \in Clients :
              wire[c] \in (IF create THEN TwoPostReplies(x.held[c])
                                     ELSE TwoDeleteReplies(x.held[c]))
         /\ LET rs == gather([c \in Clients |->
                         IF create THEN APIClient_post(wire[c])
                                   ELSE APIClient_delete(wire[c])])
                branch == IF create THEN create_branch(rs) ELSE delete_branch(rs)
                expected_status_code == IF create THEN HTTP_CREATED ELSE HTTP_OK
                y == [x EXCEPT !.held = [c \in Clients |->
                         IF create THEN ReplicaAfterPost(x.held[c], wire[c])
                                   ELSE ReplicaAfterDelete(x.held[c], wire[c])],
                               !.faults = x.faults + Faults(wire),
                               !.accepted = <<>>]
            IN IF branch = "process_to_rollback"
               THEN /\ tx' = [tx EXCEPT ![t] =
                           [y EXCEPT !.pc = "rollback",
                                     !.success_clients =
                                         select_success_clients(rs, expected_status_code),
                                     !.rb_attempt_number = 1]]
                    /\ statistics' = 1
               ELSE /\ tx' = [tx EXCEPT ![t] =
                           TwoFinish([y EXCEPT !.success_clients = <<>>,
                                               !.rb_attempt_number = 0], branch)]
                    /\ UNCHANGED statistics
    /\ UNCHANGED <<coordVars, clientVars>>

\* one compensation attempt of call t after its gather: the acceptance test,
\* then retry_strategy.iter(): stop, or count the attempt on the shared
\* statistics and on the loop's own retry state and go round again
TwoRollback(t) ==
    LET x == tx[t]
        create == x.action = "create"
        targets == x.success_clients
    IN
    /\ pc = "concurrent"
    /\ x.pc = "rollback"
    /\ \E wire \in [DOMAIN targets -> TwoWire] :
         /\ x.faults + Faults(wire) <= MaxFaultyRounds
         /\ \A i \in DOMAIN targets :
              wire[i] \in (IF create THEN TwoDeleteReplies(x.held[targets[i]])
                                     ELSE TwoPostReplies(x.held[targets[i]]))
         /\ LET rs == gather([i \in DOMAIN targets |->
                         IF create THEN APIClient_delete(wire[i])
                                   ELSE APIClient_post(wire[i])])
                ok == IF create THEN rollback_post_accepts(rs)
                                ELSE rollback_delete_accepts(rs)
                y == [x EXCEPT !.held = [c \in Clients |->
                         IF \E i \in DOMAIN targets : targets[i] = c
                         THEN LET i == CHOOSE k \in DOMAIN targets : targets[k] = c
                              IN IF create THEN ReplicaAfterDelete(x.held[c], wire[i])
                                           ELSE ReplicaAfterPost(x.held[c], wire[i])
                         ELSE x.held[c]],
                               !.faults = x.faults + Faults(wire),
                               !.accepted = Append(x.accepted, ok)]
                next == rollback_after_attempt(retry_state_attempt_number(t))
            IN IF ok
               THEN /\ tx' = [tx EXCEPT ![t] = TwoFinish(y, ROLLED_BACK)]
                    /\ UNCHANGED statistics
               ELSE IF next = "retry"
               THEN /\ tx' = [tx EXCEPT ![t] =
                           [y EXCEPT !.rb_attempt_number = x.rb_attempt_number + 1]]
                    /\ statistics' = statistics + 1
               ELSE /\ tx' = [tx EXCEPT ![t] = TwoFinish(y, next)]
                    /\ UNCHANGED statistics
    /\ UNCHANGED <<coordVars, clientVars>>

\* the wrapper of coordinate for call t: return, call again, or RetryError
TwoCoordinateRetry(t) ==
    LET x == tx[t] IN
    /\ pc = "concurrent"
    /\ x.pc = "outcome"
    /\ tx' = [tx EXCEPT ![t] =
         IF ~retry_if_result(x.result)
         THEN [x EXCEPT !.pc = "returned", !.ret = x.result]
         ELSE IF stop_after_attempt(CoordinateMaxAttempts, x.attempt_number)
         THEN [x EXCEPT !.pc = "raised", !.ret = "RetryError"]
         ELSE [x EXCEPT !.pc = "call", !.attempt_number = x.attempt_number + 1]]
    /\ UNCHANGED <<coordVars, clientVars, statistics>>

NextTwo ==
    \/ \E t \in Txns : TwoForward(t)
    \/ \E t \in Txns : TwoRollback(t)
    \/ \E t \in Txns : TwoCoordinateRetry(t)

SpecTwo == InitTwo /\ [][NextTwo]_vars

-----------------------------------------------------------------------------
(* Vocabulary of the properties *)

\* create/delete of the current attempt has returned result
Returned == pc \in {"outcome", "returned"} \/ (pc = "raised" /\ ret = "RetryError")

\* the forward fan-out of the current attempt has been made
Forwarded == responses # <<>>

Outcomes == OutcomeSet(action, responses)

DesiredPostState == \A c \in Clients : held[c] = (action = "create")

\* the replicas whose forward outcome in the current attempt was Success
SuccessSet == {c \in DOMAIN responses : Outcome(action, responses[c]) = "Success"}

\* the inverse of the forward operation
InverseMethod == IF action = "create" THEN "delete" ELSE "post"

\* r shows the replica back in its pre-forward state: 2xx for the inverse
\* operation, or already-in-desired-state for the inverse (404 for the
\* inverse delete, 400 for the inverse create)
InverseObserved(r) ==
    \/ r.kind = "Response" /\ r.status_code \in 200..299
    \/ /\ r.kind = "HTTPStatusError"
       /\ r.status_code = (IF action = "create" THEN HTTP_NOT_FOUND ELSE HTTP_BAD_REQUEST)

\* the compensator has been entered in the current attempt
CompensatorEntered == success_clients # <<>>

Terminal == pc \in {"returned", "raised", "unconstructed"}

\* progress of the call: grows with every step of Next
Measure ==
    attempt_number * 10 +
        (CASE pc = "construct" -> 0
           [] pc = "call" -> 1
           [] pc = "rollback" -> 2 + rb_attempt_number
           [] pc = "outcome" -> 6
           [] OTHER -> 7)

-----------------------------------------------------------------------------
(* Properties *)

\* C1: whenever coordinate returns ROLLED_BACK, every replica holds the
\* group if and only if it held it when coordinate was invoked.
C1_RolledBackRestoresPreState ==
    (pc = "returned" /\ ret = ROLLED_BACK) => held = held0

\* C2: whenever create (resp. delete) returns SUCCEEDED, the group exists on
\* every replica (resp. is absent from every replica).
C2_SucceededIsPostState ==
    (Returned /\ result = SUCCEEDED) => DesiredPostState

C2_Witness ==
    /\ pc = "outcome"
    /\ result = SUCCEEDED
    /\ action = "create"
    /\ \A c \in Clients : ~held0[c]
    /\ attempt_number = 2

\* C3: if create or delete returns TO_BE_RETRIED then no replica's forward
\* outcome was Success.
C3_RetryOnlyWithoutSuccess ==
    (Returned /\ result = TO_BE_RETRIED) => "Success" \notin Outcomes

C3_Witness ==
    /\ pc = "outcome"
    /\ result = TO_BE_RETRIED
    /\ action = "delete"
    /\ "ClientError" \in Outcomes

\* C4: for a valid action coordinate never raises; it returns one of the
\* four TransactionState values.
C4_ValidActionNeverRaises ==
    /\ (pc = "raised" => action \notin valid_actions)
    /\ (pc = "returned" => ret \in TransactionState)

\* C5: coordinate calls the operation again exactly while the previous
\* attempt's result is TO_BE_RETRIED or FAILED, makes at most 3 attempts,
\* and stops at the first SUCCEEDED or ROLLED_BACK; a first attempt failing
\* on every replica followed by a second succeeding on every replica gives
\* SUCCEEDED after exactly 2 attempts.
C5_OuterRetry ==
    /\ attempt_number <= CoordinateMaxAttempts
    /\ Len(results) <= CoordinateMaxAttempts
    /\ Len(forward_kinds) = (IF pc = "call" THEN attempt_number - 1 ELSE attempt_number)
           \/ action \notin valid_actions
    /\ \A k \in 1..(Len(results) - 1) : results[k] \in {TO_BE_RETRIED, FAILED}
    /\ (pc \in {"call", "rollback"}) =>
           /\ Len(results) = attempt_number - 1
           /\ \A k \in 1..Len(results) : results[k] \in {TO_BE_RETRIED, FAILED}
    /\ (pc = "returned") =>
           /\ Len(results) = attempt_number
           /\ ret = results[Len(results)]
           /\ ret \in {SUCCEEDED, ROLLED_BACK}
    /\ (pc = "raised" /\ action \in valid_actions) =>
           /\ Len(results) = CoordinateMaxAttempts
           /\ results[CoordinateMaxAttempts] \in {TO_BE_RETRIED, FAILED}
    /\ (pc \in {"returned", "raised"} /\ Len(forward_kinds) >= 2
            /\ forward_kinds[1] = "all_error" /\ forward_kinds[2] = "all_success") =>
           /\ pc = "returned"
           /\ ret = SUCCEEDED
           /\ attempt_number = 2

C5_Witness ==
    /\ pc = "returned"
    /\ ret = SUCCEEDED
    /\ forward_kinds = <<"all_error", "all_success">>
    /\ action = "create"

\* C6: for every forward outcome vector and each operation, create/delete
\* returns exactly one TransactionState value, never no value and never an
\* error.
C6_ExactlyOneState ==
    /\ (Returned => result \in TransactionState)
    /\ \A k \in DOMAIN results : results[k] \in TransactionState
    /\ (pc \in {"returned", "raised"} /\ action \in valid_actions) =>
           ret \in TransactionState \cup {"RetryError"}
    /\ (Forwarded /\ pc # "rollback") => Returned

C6_Witness ==
    /\ pc = "outcome"
    /\ result = FAILED
    /\ rb_attempt_number = RollbackMaxAttempts
    /\ Outcomes = {"Success", "AlreadyInDesiredState", "TransportError"}

\* C7: when every forward outcome is ClientError, ServerError or
\* TransportError, create/delete returns TO_BE_RETRIED and issues no
\* compensation call.
C7_AllErrorsRetried ==
    (Forwarded /\ Outcomes \subseteq ErrorOutcomes) =>
        /\ Returned
        /\ result = TO_BE_RETRIED
        /\ comp_calls = 0

\* C8: when the forward outcomes are Success at least once and
\* AlreadyInDesiredState otherwise, create/delete returns SUCCEEDED and
\* issues no compensation call.
C8_SuccessAndNoopSucceeds ==
    (Forwarded /\ "Success" \in Outcomes
        /\ Outcomes \subseteq {"Success", "AlreadyInDesiredState"}) =>
        /\ Returned
        /\ result = SUCCEEDED
        /\ comp_calls = 0

\* C9: when the forward outcomes contain a Success and a ClientError,
\* ServerError or TransportError, create/delete enters the compensator and
\* returns its result, ROLLED_BACK or FAILED.
C9_PartialSuccessCompensated ==
    (Forwarded /\ "Success" \in Outcomes /\ Outcomes \cap ErrorOutcomes # {}) =>
        \/ pc = "rollback"
        \/ /\ Returned
           /\ comp_calls > 0
           /\ result \in {ROLLED_BACK, FAILED}

\* C10: when every forward outcome is Success, or every one is
\* AlreadyInDesiredState, create/delete and coordinate return SUCCEEDED
\* after that single fan-out with no compensation call.
C10_UniformOutcomeSucceeds ==
    (Forwarded /\ (Outcomes = {"Success"} \/ Outcomes = {"AlreadyInDesiredState"})) =>
        /\ pc \in {"outcome", "returned"}
        /\ result = SUCCEEDED
        /\ comp_calls = 0
        /\ rb_attempt_number = 0
        /\ Len(results) = attempt_number
        /\ (pc = "returned" => ret = SUCCEEDED)

C10_Witness ==
    /\ pc = "returned"
    /\ ret = SUCCEEDED
    /\ attempt_number = 1
    /\ action = "create"
    /\ \A c \in Clients : held0[c]
    /\ Outcomes = {"AlreadyInDesiredState"}

\* C11: if create/delete returns ROLLED_BACK, then for every replica whose
\* forward outcome was Success a compensation call made after the forward
\* pass returned 2xx for the inverse operation or already-in-desired-state
\* for the inverse.
C11_RolledBackObserved ==
    (Returned /\ result = ROLLED_BACK) =>
        /\ rb_attempt_number >= 1
        /\ \A c \in SuccessSet :
               /\ c \in DOMAIN rollback_responses
               /\ InverseObserved(rollback_responses[c])

C11_Witness ==
    /\ pc = "outcome"
    /\ result = ROLLED_BACK
    /\ action = "delete"
    /\ Cardinality(SuccessSet) = 2
    /\ \A c \in SuccessSet : rollback_responses[c].status_code = HTTP_BAD_REQUEST

\* C12: whenever a transaction ends in FAILED after the compensation
\* retries are exhausted, the reporting sink has been invoked with the
\* intended operation, the success set and the last compensation outcomes
\* before the state is returned.
C12_FailedIsReported ==
    (Returned /\ result = FAILED /\ rb_attempt_number = RollbackMaxAttempts) =>
        \E k \in DOMAIN sink_calls :
            /\ sink_calls[k].intended_operation = action
            /\ sink_calls[k].success_set = RangeOf(success_clients)
            /\ sink_calls[k].last_compensation_outcomes = rollback_responses

\* C13: coordinate with an action other than 'create' or 'delete' fails
\* with the validation error on its first attempt; no replica call is
\* issued and the operation is not invoked again.
C13_InvalidActionRejected ==
    (action \notin {"create", "delete"}) =>
        /\ pc \in {"construct", "unconstructed", "call", "raised"}
        /\ attempt_number <= 1
        /\ forward_calls = 0
        /\ inverse_calls = 0
        /\ held = held0
        /\ results = <<>>
        /\ (pc = "raised" => ret = "ValueError")

C13_Witness ==
    /\ pc = "raised"
    /\ ret = "ValueError"
    /\ action = "update"
    /\ attempt_number = 1

\* C14: a client call (get, post or delete) never throws to its caller: an
\* HTTP error status and a transport failure without any HTTP response are
\* both returned as an outcome value.
C14_ClientNeverThrows ==
    client_result # NoResult => ~client_result.raised

\* what a call running alone does with a stream of compensation verdicts:
\* it stops at the first accepted attempt, else after RollbackMaxAttempts
SoloCompensation(acc) ==
    LET hits == {k \in 1..RollbackMaxAttempts : k <= Len(acc) /\ acc[k]} IN
    IF hits # {}
    THEN [attempts |-> CHOOSE k \in hits : \A m \in hits : k <= m,
          state    |-> ROLLED_BACK]
    ELSE [attempts |-> RollbackMaxAttempts, state |-> FAILED]

\* what the wrapper of a call running alone does with the result r of its
\* n-th forward attempt
SoloCoordinate(n, r) ==
    IF r \notin {TO_BE_RETRIED, FAILED} THEN r
    ELSE IF n >= CoordinateMaxAttempts THEN "RetryError"
    ELSE "retry"

\* C15: two transactions on distinct group ids running concurrently in one
\* process do not interfere: the number of forward attempts, the number of
\* compensation attempts and the returned state of each are those of a run
\* alone on the same replica outcomes, although both use the module-level
\* retry_strategy object.
C15_NoInterference ==
    pc = "concurrent" =>
    \A t \in Txns :
      LET x == tx[t] IN
      /\ x.pc = "rollback" =>
           /\ Len(x.accepted) < RollbackMaxAttempts
           /\ x.rb_attempt_number = Len(x.accepted) + 1
           /\ \A k \in DOMAIN x.accepted : ~x.accepted[k]
      /\ (x.pc = "outcome" /\ x.rb_attempt_number > 0) =>
           /\ Len(x.accepted) = SoloCompensation(x.accepted).attempts
           /\ x.result = SoloCompensation(x.accepted).state
      /\ x.attempt_number <= CoordinateMaxAttempts
      /\ (x.pc \in {"call", "rollback"} /\ x.attempt_number > 1) =>
           SoloCoordinate(x.attempt_number - 1, x.result) = "retry"
      /\ x.pc \in {"returned", "raised"} =>
           x.ret = SoloCoordinate(x.attempt_number, x.result)

\* both calls are inside the compensation loop, and the shared statistics
\* carry an attempt number that is neither call's own; then one of them
\* runs its loop to the end
C15_Witness ==
    /\ pc = "concurrent"
    /\ tx[1].pc = "outcome" /\ tx[1].result = FAILED
    /\ Len(tx[1].accepted) = RollbackMaxAttempts
    /\ tx[2].pc = "rollback"
    /\ statistics # tx[1].rb_attempt_number
    /\ statistics # tx[2].rb_attempt_number

\* C16: the coordinator accepts a cluster of any cardinality N >= 1:
\* construction succeeds and create/delete fan out to all N replicas, with
\* no compensation for N = 1.
C16_AnyCardinality ==
    /\ pc # "unconstructed"
    /\ (Forwarded => Len(responses) = num_hosts)
    /\ (num_hosts = 1 => inverse_calls = 0)

\* C17: on every compensation attempt the inverse operation is issued to
\* exactly the replicas whose forward outcome was Success, matched to their
\* clients by position.
C17_CompensatesExactlySuccessSet ==
    (pc = "rollback" \/ comp_log # <<>>) =>
        /\ RangeOf(success_clients) = SuccessSet
        /\ Len(success_clients) = Cardinality(SuccessSet)
        /\ \A k \in DOMAIN comp_log :
               /\ comp_log[k].targets = SuccessSet
               /\ comp_log[k].method = InverseMethod
        /\ (comp_log # <<>> => DOMAIN rollback_responses = SuccessSet)

C17_Witness ==
    /\ Len(comp_log) = 2
    /\ action = "create"
    /\ SuccessSet = {1, 3}
    /\ Outcome(action, responses[2]) = "AlreadyInDesiredState"

\* C18: a compensation attempt succeeds, and the compensator returns
\* ROLLED_BACK, whenever every targeted replica's response is 2xx for the
\* inverse operation or already-in-desired-state for the inverse, in any
\* mixture.
C18_ObservedMeansRolledBack ==
    (comp_log # <<>>
        /\ \A c \in DOMAIN rollback_responses : InverseObserved(rollback_responses[c])) =>
        /\ Returned
        /\ result = ROLLED_BACK

C20_BoundedWork ==
    /\ [](/\ attempt_number <= CoordinateMaxAttempts
          /\ Len(forward_kinds) <= CoordinateMaxAttempts
          /\ rb_attempt_number <= RollbackMaxAttempts
          /\ forward_calls = NumClients * Len(forward_kinds)
          /\ forward_calls <= CoordinateMaxAttempts * NumClients
          /\ inverse_calls <= CoordinateMaxAttempts * RollbackMaxAttempts * NumClients
          /\ (Terminal \/ ENABLED Next))
    /\ [][Measure' > Measure]_vars

C20_Witness ==
    /\ pc = "raised"
    /\ ret = "RetryError"
    /\ forward_calls = 9
    /\ inverse_calls = 18


\* C21: whenever coordinate returns a value it is SUCCEEDED or ROLLED_BACK;
\* TO_BE_RETRIED and FAILED are never returned, because an attempt ending in
\* either is retried and the third such attempt ends in a raised
\* retry-exhaustion error instead of a returned state.
C21_ReturnsOnlyFinalStates ==
    /\ (pc = "returned") =>
           /\ ret = result
           /\ ret \in {SUCCEEDED, ROLLED_BACK}
    /\ ret \notin {TO_BE_RETRIED, FAILED}
    /\ (pc \in {"call", "rollback"} /\ attempt_number > 1) =>
           results[attempt_number - 1] \in {TO_BE_RETRIED, FAILED}
    /\ (pc = "raised" /\ ret = "RetryError") =>
           /\ attempt_number = CoordinateMaxAttempts
           /\ \A k \in 1..CoordinateMaxAttempts :
                  results[k] \in {TO_BE_RETRIED, FAILED}
    /\ (pc \in {"returned", "raised"} /\ results # <<>>
            /\ results[Len(results)] \in {TO_BE_RETRIED, FAILED}) =>
           /\ pc = "raised"
           /\ ret = "RetryError"
           /\ Len(results) = CoordinateMaxAttempts

\* three attempts ending in TO_BE_RETRIED, FAILED and FAILED: the call ends
\* in the retry-exhaustion error
C21_Witness ==
    /\ pc = "raised"
    /\ ret = "RetryError"
    /\ results = <<TO_BE_RETRIED, FAILED, FAILED>>

====
